---- MODULE Spec2Model ----
(***************************************************************************)
(* Model of the payment engine: the client accounts (clients.rs), the      *)
(* register of money operations and the processing of money operations and *)
(* client claims (transactions.rs), and the record loop (lib.rs).          *)
(*                                                                         *)
(* Amounts are f64 in the source.  The model counts them in millionths     *)
(* (1 / Resolution) and computes on them exactly.  The record loop draws   *)
(* whole amounts, on which f64 addition, subtraction and comparison are    *)
(* exact; the report is checked on amounts with six decimals that stay     *)
(* clear of the rounding ties, where the f64 product may fall on either    *)
(* side.  The record loop is modelled a second time on the f64 values      *)
(* themselves (SpecF64), with IEEE 754 rounding of every sum and           *)
(* difference, on files of the amounts 0.1 and 0.7.  Infinities and NaN    *)
(* are outside the model.                                                  *)
(***************************************************************************)
EXTENDS Integers, FiniteSets, Sequences, TLC

\* Bounds of the model.
MaxClient == 2
MaxTx == 3
MaxAmount == 2
MaxRecords == 4

\* clients.rs: the factor of four_digits_precision.
Precision == 10000

\* The model's amounts are integers counting 1 / Resolution.
Resolution == 100 * Precision

ClientIds == 1..MaxClient
TransactionIds == 1..MaxTx

MoneyKinds == {"deposit", "withdrawal"}
ClaimKinds == {"resolve", "dispute", "chargeback"}

\* TransactionLine as delivered by the csv reader: amount is Option<f64>.
\* A money line may lack its amount or carry a negative one; the amount of a
\* claim line is never read, so claim lines are drawn without one.
TransactionLine ==
    [transaction_type : MoneyKinds, client_id : ClientIds,
     transaction_id : TransactionIds, has_amount : {TRUE},
     amount : {a * Resolution : a \in (-1)..MaxAmount}]
    \cup
    [transaction_type : MoneyKinds \cup ClaimKinds, client_id : ClientIds,
     transaction_id : TransactionIds, has_amount : {FALSE}, amount : {0}]

NoLine ==
    [transaction_type |-> "none", client_id |-> 0, transaction_id |-> 0,
     has_amount |-> FALSE, amount |-> 0]

EmptyMap == [x \in {} |-> 0]

\* Amounts of the deposits of the report runs: the 2.234235 of the precision
\* test, and 0.000049 and 0.000051, which round to different sides.
ReportAmounts == {2234235, 49, 51}

\* The lines of the report runs: deposits of these amounts and disputes.
ReportLine ==
    [transaction_type : {"deposit"}, client_id : ClientIds,
     transaction_id : TransactionIds, has_amount : {TRUE},
     amount : ReportAmounts]
    \cup
    [transaction_type : {"dispute"}, client_id : ClientIds,
     transaction_id : TransactionIds, has_amount : {FALSE}, amount : {0}]

VARIABLES
    accounts,      \* ClientAccounts.inner : ClientId -> Client
    register,      \* MoneyOperationsRegister.inner : TransactionId -> MoneyOperation
    nrecords,      \* records consumed from the input so far
    lastLine,      \* the record consumed by the last step
    lastResult,    \* its result: "Ok" or the error
    beforeAccounts,\* accounts as they were before the last record
    beforeRegister,\* register as it was before the last record
    seenTx,        \* transaction ids of the money operations processed so far
    acceptedTx,    \* transaction ids of the money operations accepted so far
    claimSeen,     \* whether a claim record has been consumed
    mismatchSeen,  \* whether a claim carried another client id than the
                   \* recorded operation it referenced
    accDeposits,   \* per client, sum of the amounts of accepted deposits
    accWithdrawals,\* per client, sum of the amounts of accepted withdrawals
    pc,            \* main: "reading" the file, then "done" once printed
    output         \* the rows written by print_to, per client

vars == <<accounts, register, nrecords, lastLine, lastResult, beforeAccounts,
          beforeRegister, seenTx, acceptedTx, claimSeen, mismatchSeen, accDeposits,
          accWithdrawals, pc, output>>

----------------------------------------------------------------------------
\* clients.rs: FourDigitsPrecision

\* f64::round of the fraction n / d: to the nearest integer, halves away
\* from zero.
Round(n, d) ==
    IF n >= 0 THEN (2 * n + d) \div (2 * d)
    ELSE -((2 * (-n) + d) \div (2 * d))

\* (self * 10000.).round() / 10000.  For an amount x counted in
\* 1 / Resolution, self * 10000. is the fraction x / (Resolution / Precision)
\* and dividing the rounded value by 10000. multiplies it back.
four_digits_precision(x) ==
    Round(x, Resolution \div Precision) * (Resolution \div Precision)

----------------------------------------------------------------------------
\* clients.rs: Client

\* increase_funds keeping the funds at four digits
increase_funds_rounded(client, amount) ==
    [client EXCEPT !.funds = four_digits_precision(@ + amount)]

\* increase_funds assigning instead of adding
increase_funds_assign(client, amount) == [client EXCEPT !.funds = amount]

increase_funds(client, amount) == [client EXCEPT !.funds = @ + amount]

decrease_funds(client, amount) == [client EXCEPT !.funds = @ - amount]

\* has_enough_funds with a strict comparison
has_enough_funds_strict(client, amount) == client.funds > amount

\* has_enough_funds with its operands swapped
has_enough_funds_swapped(client, amount) == amount >= client.funds

has_enough_funds(client, amount) == client.funds >= amount

hold_funds(client, amount) ==
    [client EXCEPT !.funds = @ - amount, !.held_funds = @ + amount]

\* The two fallible operations work on a &mut Client: the result carries the
\* client as the call leaves it, whether it returns Ok or Err.
\* clear_held_funds without its check
clear_held_funds_unchecked(client, amount) ==
    [err |-> "Ok", client |-> [client EXCEPT !.held_funds = @ - amount]]

clear_held_funds(client, amount) ==
    IF client.held_funds < amount
    THEN [err |-> "NotEnoughFunds", client |-> client]
    ELSE [err |-> "Ok", client |-> [client EXCEPT !.held_funds = @ - amount]]

\* release_funds that does not credit the funds
release_funds_no_credit(client, amount) ==
    IF client.held_funds < amount
    THEN [err |-> "NotEnoughFunds", client |-> client]
    ELSE [err |-> "Ok", client |-> [client EXCEPT !.held_funds = @ - amount]]

\* release_funds with the check after the subtraction
release_funds_late_check(client, amount) ==
    LET after == [client EXCEPT !.held_funds = @ - amount]
    IN  IF after.held_funds < 0
        THEN [err |-> "NotEnoughFunds", client |-> after]
        ELSE [err |-> "Ok", client |-> [after EXCEPT !.funds = @ + amount]]

release_funds(client, amount) ==
    IF client.held_funds < amount
    THEN [err |-> "NotEnoughFunds", client |-> client]
    ELSE [err |-> "Ok",
          client |-> [client EXCEPT !.held_funds = @ - amount,
                                    !.funds = @ + amount]]

\* clients.rs: the AccountSummary that print_to builds for one account
AccountSummary(id, account) ==
    [client |-> id, available |-> account.funds, held |-> account.held_funds,
     locked |-> account.locked,
     total |-> account.held_funds + account.funds]

\* clients.rs: Serialize for AccountSummary
Serialize(summary) ==
    [client |-> summary.client,
     available |-> four_digits_precision(summary.available),
     held |-> four_digits_precision(summary.held),
     total |-> four_digits_precision(summary.total),
     locked |-> summary.locked]

\* clients.rs: ClientAccounts::print_to: one row per account (the order of
\* the rows is the HashMap's and is not modelled)
print_to(clients_map) ==
    [id \in DOMAIN clients_map |->
        Serialize(AccountSummary(id, clients_map[id]))]

\* HashMap::insert
MapInsert(map, key, value) ==
    [k \in DOMAIN map \cup {key} |-> IF k = key THEN value ELSE map[k]]

\* create_client putting the funds in held_funds as well
create_client_held(clients_map, id, funds) ==
    MapInsert(clients_map, id,
              [funds |-> funds, held_funds |-> funds, locked |-> FALSE])

create_client(clients_map, id, funds) ==
    MapInsert(clients_map, id,
              [funds |-> funds, held_funds |-> 0, locked |-> FALSE])

----------------------------------------------------------------------------
\* transactions.rs: MoneyOperationsRegister

\* contains that never finds the id
contains_never(operations_register, id) == FALSE

contains(operations_register, id) == id \in DOMAIN operations_register

\* insert keyed by the operation's client id instead of the transaction id
insert_by_client(operations_register, id, operation) ==
    MapInsert(operations_register, operation.client_id, operation)

insert(operations_register, id, operation) ==
    MapInsert(operations_register, id, operation)

\* Result of processing one order: the error (or "Ok") and both maps as the
\* call leaves them.
Outcome(res, clients_map, operations_register) ==
    [res |-> res, clients |-> clients_map, register |-> operations_register]

\* transactions.rs: MoneyOperation::process
MoneyOperation_process(op, clients_map, operations_register) ==
    LET id == op.client_id
        exists == id \in DOMAIN clients_map
        Fail(e) == Outcome(e, clients_map, operations_register)
        Done(cm) == Outcome("Ok", cm,
                            insert(operations_register, op.transaction_id, op))
    IN  IF contains(operations_register, op.transaction_id)
        THEN Fail("AlreadyExists")
        ELSE IF exists /\ clients_map[id].locked
        THEN Fail("LockedAccount")
        ELSE IF op.kind = "Withdrawal" /\ ~exists
        THEN Fail("MissingClient")
        ELSE IF op.kind = "Withdrawal"
        THEN IF ~has_enough_funds(clients_map[id], op.amount)
             THEN Fail("NotEnoughFunds")
             ELSE Done([clients_map EXCEPT
                          ![id] = decrease_funds(@, op.amount)])
        ELSE IF exists
        THEN Done([clients_map EXCEPT ![id] = increase_funds(@, op.amount)])
        ELSE Done(create_client(clients_map, id, op.amount))

\* ClaimLookup with the missing client matched before the missing operation
ClaimLookup_client_first(claim, clients_map, operations_register) ==
    LET hasOp == claim.transaction_id \in DOMAIN operations_register
        hasClient == claim.client_id \in DOMAIN clients_map
    IN  IF hasClient /\ clients_map[claim.client_id].locked
        THEN "LockedAccount"
        ELSE IF hasOp /\ hasClient THEN "Ok"
        ELSE IF ~hasClient THEN "MissingClient"
        ELSE "MissingOperation"

\* ClaimLookup without the arm of the locked account
ClaimLookup_no_lock(claim, clients_map, operations_register) ==
    LET hasOp == claim.transaction_id \in DOMAIN operations_register
        hasClient == claim.client_id \in DOMAIN clients_map
    IN  IF hasOp /\ hasClient THEN "Ok"
        ELSE IF ~hasOp THEN "MissingOperation"
        ELSE "MissingClient"

\* ClaimLookup with the missing operation matched before the locked account
ClaimLookup_operation_first(claim, clients_map, operations_register) ==
    LET hasOp == claim.transaction_id \in DOMAIN operations_register
        hasClient == claim.client_id \in DOMAIN clients_map
    IN  IF ~hasOp THEN "MissingOperation"
        ELSE IF ~hasClient THEN "MissingClient"
        ELSE IF clients_map[claim.client_id].locked THEN "LockedAccount"
        ELSE "Ok"

\* transactions.rs: ClientClaim::process, the first match: which arm the pair
\* (get_operation(transaction_id), get_account(client_id)) takes.
ClaimLookup(claim, clients_map, operations_register) ==
    LET hasOp == claim.transaction_id \in DOMAIN operations_register
        hasClient == claim.client_id \in DOMAIN clients_map
    IN  IF hasClient /\ clients_map[claim.client_id].locked
        THEN "LockedAccount"
        ELSE IF hasOp /\ hasClient THEN "Ok"
        ELSE IF ~hasOp THEN "MissingOperation"
        ELSE "MissingClient"

\* ClaimArm with a Chargeback accepted on a disputed operation
ClaimArm_chargeback_disputed(claim_kind, disputed) ==
    IF claim_kind = "Dispute" /\ ~disputed THEN "Dispute"
    ELSE IF claim_kind = "Resolve" /\ disputed THEN "Resolve"
    ELSE IF claim_kind = "Chargeback" /\ disputed THEN "Chargeback"
    ELSE "WrongTransactionState"

\* transactions.rs: ClientClaim::process, the second match: the arm selected
\* by the claim kind and the guard on operation.disputed.
ClaimArm(claim_kind, disputed) ==
    IF claim_kind = "Dispute" /\ ~disputed THEN "Dispute"
    ELSE IF claim_kind = "Resolve" /\ disputed THEN "Resolve"
    ELSE IF claim_kind = "Chargeback" /\ ~disputed THEN "Chargeback"
    ELSE "WrongTransactionState"

\* ClaimAccount naming the client of the referenced operation
ClaimAccount_owner(claim, operation) == operation.client_id

\* transactions.rs: ClientClaim::process: the account the claim acts on is
\* the one of the claim's own client id, get_account(self.client_id).
ClaimAccount(claim, operation) == claim.client_id

\* transactions.rs: ClientClaim::process
ClientClaim_process(claim, clients_map, operations_register) ==
    LET look == ClaimLookup(claim, clients_map, operations_register)
    IN  IF look # "Ok"
        THEN Outcome(look, clients_map, operations_register)
        ELSE
        LET tx == claim.transaction_id
            operation == operations_register[tx]
            id == ClaimAccount(claim, operation)
            client == clients_map[id]
            amount == operation.amount
            arm == ClaimArm(claim.claim_kind, operation.disputed)
            \* a `?` that fails returns with the client as the callee left it
            \* and before operation.disputed or client.locked is assigned
            Try(r, disputed, lock) ==
                IF r.err # "Ok"
                THEN Outcome(r.err, [clients_map EXCEPT ![id] = r.client],
                             operations_register)
                ELSE Outcome("Ok",
                        [clients_map EXCEPT
                           ![id] = IF lock THEN [r.client EXCEPT !.locked = TRUE]
                                   ELSE r.client],
                        [operations_register EXCEPT ![tx].disputed = disputed])
        IN  CASE arm = "Dispute" ->
                   Outcome("Ok",
                     [clients_map EXCEPT ![id] =
                        IF operation.kind = "Deposit"
                        THEN decrease_funds(hold_funds(client, amount), amount)
                        ELSE hold_funds(client, amount)],
                     [operations_register EXCEPT ![tx].disputed = TRUE])
              [] arm = "Resolve" ->
                   IF operation.kind = "Deposit"
                   THEN Try(release_funds(client, amount), FALSE, FALSE)
                   ELSE Try(clear_held_funds(client, amount), FALSE, FALSE)
              [] arm = "Chargeback" ->
                   IF operation.kind = "Deposit"
                   THEN Try(clear_held_funds(client, amount), FALSE, TRUE)
                   ELSE Try(release_funds(client, amount), FALSE, TRUE)
              [] OTHER ->
                   Outcome("WrongTransactionState", clients_map,
                           operations_register)

----------------------------------------------------------------------------
\* lib.rs: TryFrom<TransactionLine> for TransactionOrder

IsMoneyLine(line) == line.transaction_type \in MoneyKinds

try_from(line) ==
    IF IsMoneyLine(line)
    THEN IF line.has_amount /\ line.amount >= 0
         THEN [err |-> "Ok", variant |-> "MoneyOperation",
               order |-> [client_id |-> line.client_id,
                          transaction_id |-> line.transaction_id,
                          disputed |-> FALSE,
                          kind |-> IF line.transaction_type = "deposit"
                                   THEN "Deposit" ELSE "Withdrawal",
                          amount |-> line.amount]]
         ELSE [err |-> "WrongArgument"]
    ELSE [err |-> "Ok", variant |-> "ClientClaim",
          order |-> [transaction_id |-> line.transaction_id,
                     client_id |-> line.client_id,
                     claim_kind |->
                        CASE line.transaction_type = "resolve" -> "Resolve"
                          [] line.transaction_type = "dispute" -> "Dispute"
                          [] OTHER -> "Chargeback"]]

\* lib.rs: the closure of read_transactions_file applied to one line:
\* try_from(line)?.process(accounts, operations_register)
ProcessLine(line, clients_map, operations_register) ==
    LET t == try_from(line)
    IN  IF t.err # "Ok"
        THEN Outcome(t.err, clients_map, operations_register)
        ELSE IF t.variant = "MoneyOperation"
        THEN MoneyOperation_process(t.order, clients_map, operations_register)
        ELSE ClientClaim_process(t.order, clients_map, operations_register)

----------------------------------------------------------------------------
\* main.rs: both maps start empty.
Init ==
    /\ accounts = EmptyMap
    /\ register = EmptyMap
    /\ nrecords = 0
    /\ lastLine = NoLine
    /\ lastResult = "None"
    /\ beforeAccounts = EmptyMap
    /\ beforeRegister = EmptyMap
    /\ seenTx = {}
    /\ acceptedTx = {}
    /\ claimSeen = FALSE
    /\ mismatchSeen = FALSE
    /\ accDeposits = [c \in ClientIds |-> 0]
    /\ accWithdrawals = [c \in ClientIds |-> 0]
    /\ pc = "reading"
    /\ output = EmptyMap

\* lib.rs: one iteration of the loop of read_transactions_file.
ReadLine(line) ==
    /\ pc = "reading"
    /\ nrecords < MaxRecords
    /\ UNCHANGED <<pc, output>>
    /\ LET out == ProcessLine(line, accounts, register)
           accepted(kind) == line.transaction_type = kind /\ out.res = "Ok"
       IN  /\ accounts' = out.clients
           /\ register' = out.register
           /\ lastResult' = out.res
           /\ acceptedTx' =
                IF IsMoneyLine(line) /\ out.res = "Ok"
                THEN acceptedTx \cup {line.transaction_id}
                ELSE acceptedTx
           /\ accDeposits' =
                IF accepted("deposit")
                THEN [accDeposits EXCEPT ![line.client_id] = @ + line.amount]
                ELSE accDeposits
           /\ accWithdrawals' =
                IF accepted("withdrawal")
                THEN [accWithdrawals EXCEPT ![line.client_id] = @ + line.amount]
                ELSE accWithdrawals
    /\ nrecords' = nrecords + 1
    /\ lastLine' = line
    /\ beforeAccounts' = accounts
    /\ beforeRegister' = register
    /\ seenTx' = IF try_from(line).err = "Ok" /\ IsMoneyLine(line)
                 THEN seenTx \cup {line.transaction_id}
                 ELSE seenTx
    /\ claimSeen' = (claimSeen \/ ~IsMoneyLine(line))
    /\ mismatchSeen' =
         \/ mismatchSeen
         \/ /\ ~IsMoneyLine(line)
            /\ line.transaction_id \in DOMAIN register
            /\ register[line.transaction_id].client_id # line.client_id

LinesOf(kind) == {l \in TransactionLine : l.transaction_type = kind}

Deposit == \E line \in LinesOf("deposit") : ReadLine(line)
Withdrawal == \E line \in LinesOf("withdrawal") : ReadLine(line)
Dispute == \E line \in LinesOf("dispute") : ReadLine(line)
Resolve == \E line \in LinesOf("resolve") : ReadLine(line)
Chargeback == \E line \in LinesOf("chargeback") : ReadLine(line)

Next == Deposit \/ Withdrawal \/ Dispute \/ Resolve \/ Chargeback

Spec == Init /\ [][Next]_vars

\* main.rs: after the file is read, accounts.print_to(stdout)
PrintTo ==
    /\ pc = "reading"
    /\ pc' = "done"
    /\ output' = print_to(accounts)
    /\ UNCHANGED <<accounts, register, nrecords, lastLine, lastResult,
                   beforeAccounts, beforeRegister, seenTx, acceptedTx,
                   claimSeen, mismatchSeen, accDeposits, accWithdrawals>>

\* The whole of main on a file of deposits with six decimals and disputes.
ReportDeposit ==
    \E line \in ReportLine :
        line.transaction_type = "deposit" /\ ReadLine(line)
ReportDispute ==
    \E line \in ReportLine :
        line.transaction_type = "dispute" /\ ReadLine(line)

NextReport == ReportDeposit \/ ReportDispute \/ PrintTo

SpecReport == Init /\ [][NextReport]_vars

TypeOK ==
    /\ DOMAIN accounts \subseteq ClientIds
    /\ DOMAIN register \subseteq TransactionIds
    /\ nrecords \in 0..MaxRecords

----------------------------------------------------------------------------
\* The amounts as the f64 values of the source.
\*
\* An f64 of magnitude below 8 that is a multiple of 2^-56 is held as its
\* count of 2^-56, split in two limbs: the value is
\* (hi * Limb + lo) * 2^-56 with 0 <= lo < Limb; hi carries the sign.  All
\* the f64 from 2^-4 up to 8 are such multiples, and so are their sums and
\* differences.
Limb == 2^30

\* 0.
F64Zero == [hi |-> 0, lo |-> 0]

\* The f64 written 0.1 is 7205759403792794 * 2^-56 (0x3FB999999999999A) and
\* the f64 written 0.7 is 50440315826549552 * 2^-56 (0x3FE6666666666666).
F64Tenth == [hi |-> 6710886, lo |-> 429496730]
F64SevenTenths == [hi |-> 46976204, lo |-> 858993456]

F64Neg(a) ==
    IF a.lo = 0 THEN [hi |-> -a.hi, lo |-> 0]
    ELSE [hi |-> -a.hi - 1, lo |-> Limb - a.lo]

\* The sum as a real number, before it is rounded to an f64.
F64ExactSum(a, b) ==
    LET lo == a.lo + b.lo
    IN  [hi |-> a.hi + b.hi + lo \div Limb, lo |-> lo % Limb]

\* The spacing, in 2^-56, of the f64 around a magnitude of high limb hi: an
\* f64 has 53 significant bits and a count below 2^53 has hi below 2^23.
RECURSIVE F64Ulp(_)
F64Ulp(hi) == IF hi < 2^23 THEN 1 ELSE 2 * F64Ulp(hi \div 2)

\* IEEE 754 rounding of a magnitude to the nearest f64, ties to the even one.
F64RoundMagnitude(a) ==
    LET ulp == F64Ulp(a.hi)
        q == a.lo \div ulp
        r == a.lo % ulp
        up == 2 * r > ulp \/ (2 * r = ulp /\ q % 2 = 1)
        lo == (IF up THEN q + 1 ELSE q) * ulp
    IN  IF lo = Limb THEN [hi |-> a.hi + 1, lo |-> 0]
        ELSE [hi |-> a.hi, lo |-> lo]

F64Round(a) ==
    IF a.hi < 0 THEN F64Neg(F64RoundMagnitude(F64Neg(a)))
    ELSE F64RoundMagnitude(a)

\* f64 +, - and <
F64Plus(a, b) == F64Round(F64ExactSum(a, b))
F64Minus(a, b) == F64Round(F64ExactSum(a, F64Neg(b)))
F64Less(a, b) == a.hi < b.hi \/ (a.hi = b.hi /\ a.lo < b.lo)

\* clients.rs: Client, on f64 amounts
increase_funds_f64(client, amount) ==
    [client EXCEPT !.funds = F64Plus(@, amount)]

decrease_funds_f64(client, amount) ==
    [client EXCEPT !.funds = F64Minus(@, amount)]

has_enough_funds_f64(client, amount) == ~F64Less(client.funds, amount)

hold_funds_f64(client, amount) ==
    [client EXCEPT !.funds = F64Minus(@, amount),
                   !.held_funds = F64Plus(@, amount)]

clear_held_funds_f64(client, amount) ==
    IF F64Less(client.held_funds, amount)
    THEN [err |-> "NotEnoughFunds", client |-> client]
    ELSE [err |-> "Ok",
          client |-> [client EXCEPT !.held_funds = F64Minus(@, amount)]]

release_funds_f64(client, amount) ==
    IF F64Less(client.held_funds, amount)
    THEN [err |-> "NotEnoughFunds", client |-> client]
    ELSE [err |-> "Ok",
          client |-> [client EXCEPT !.held_funds = F64Minus(@, amount),
                                    !.funds = F64Plus(@, amount)]]

create_client_f64(clients_map, id, funds) ==
    MapInsert(clients_map, id,
              [funds |-> funds, held_funds |-> F64Zero, locked |-> FALSE])

\* transactions.rs: MoneyOperation::process, on f64 amounts
MoneyOperation_process_f64(op, clients_map, operations_register) ==
    LET id == op.client_id
        exists == id \in DOMAIN clients_map
        Fail(e) == Outcome(e, clients_map, operations_register)
        Done(cm) == Outcome("Ok", cm,
                            insert(operations_register, op.transaction_id, op))
    IN  IF contains(operations_register, op.transaction_id)
        THEN Fail("AlreadyExists")
        ELSE IF exists /\ clients_map[id].locked
        THEN Fail("LockedAccount")
        ELSE IF op.kind = "Withdrawal" /\ ~exists
        THEN Fail("MissingClient")
        ELSE IF op.kind = "Withdrawal"
        THEN IF ~has_enough_funds_f64(clients_map[id], op.amount)
             THEN Fail("NotEnoughFunds")
             ELSE Done([clients_map EXCEPT
                          ![id] = decrease_funds_f64(@, op.amount)])
        ELSE IF exists
        THEN Done([clients_map EXCEPT
                     ![id] = increase_funds_f64(@, op.amount)])
        ELSE Done(create_client_f64(clients_map, id, op.amount))

\* transactions.rs: ClientClaim::process, on f64 amounts
ClientClaim_process_f64(claim, clients_map, operations_register) ==
    LET look == ClaimLookup(claim, clients_map, operations_register)
    IN  IF look # "Ok"
        THEN Outcome(look, clients_map, operations_register)
        ELSE
        LET tx == claim.transaction_id
            operation == operations_register[tx]
            id == ClaimAccount(claim, operation)
            client == clients_map[id]
            amount == operation.amount
            arm == ClaimArm(claim.claim_kind, operation.disputed)
            Try(r, disputed, lock) ==
                IF r.err # "Ok"
                THEN Outcome(r.err, [clients_map EXCEPT ![id] = r.client],
                             operations_register)
                ELSE Outcome("Ok",
                        [clients_map EXCEPT
                           ![id] = IF lock THEN [r.client EXCEPT !.locked = TRUE]
                                   ELSE r.client],
                        [operations_register EXCEPT ![tx].disputed = disputed])
        IN  CASE arm = "Dispute" ->
                   Outcome("Ok",
                     [clients_map EXCEPT ![id] =
                        IF operation.kind = "Deposit"
                        THEN decrease_funds_f64(hold_funds_f64(client, amount),
                                                amount)
                        ELSE hold_funds_f64(client, amount)],
                     [operations_register EXCEPT ![tx].disputed = TRUE])
              [] arm = "Resolve" ->
                   IF operation.kind = "Deposit"
                   THEN Try(release_funds_f64(client, amount), FALSE, FALSE)
                   ELSE Try(clear_held_funds_f64(client, amount), FALSE, FALSE)
              [] arm = "Chargeback" ->
                   IF operation.kind = "Deposit"
                   THEN Try(clear_held_funds_f64(client, amount), FALSE, TRUE)
                   ELSE Try(release_funds_f64(client, amount), FALSE, TRUE)
              [] OTHER ->
                   Outcome("WrongTransactionState", clients_map,
                           operations_register)

\* lib.rs: TryFrom<TransactionLine> for TransactionOrder, on f64 amounts
try_from_f64(line) ==
    IF IsMoneyLine(line)
    THEN IF line.has_amount /\ ~F64Less(line.amount, F64Zero)
         THEN [err |-> "Ok", variant |-> "MoneyOperation",
               order |-> [client_id |-> line.client_id,
                          transaction_id |-> line.transaction_id,
                          disputed |-> FALSE,
                          kind |-> IF line.transaction_type = "deposit"
                                   THEN "Deposit" ELSE "Withdrawal",
                          amount |-> line.amount]]
         ELSE [err |-> "WrongArgument"]
    ELSE [err |-> "Ok", variant |-> "ClientClaim",
          order |-> [transaction_id |-> line.transaction_id,
                     client_id |-> line.client_id,
                     claim_kind |->
                        CASE line.transaction_type = "resolve" -> "Resolve"
                          [] line.transaction_type = "dispute" -> "Dispute"
                          [] OTHER -> "Chargeback"]]

\* lib.rs: the closure of read_transactions_file, on f64 amounts
ProcessLine_f64(line, clients_map, operations_register) ==
    LET t == try_from_f64(line)
    IN  IF t.err # "Ok"
        THEN Outcome(t.err, clients_map, operations_register)
        ELSE IF t.variant = "MoneyOperation"
        THEN MoneyOperation_process_f64(t.order, clients_map,
                                        operations_register)
        ELSE ClientClaim_process_f64(t.order, clients_map,
                                     operations_register)

\* The files of the f64 runs: one client, two transaction ids, the amounts
\* 0.1 and 0.7, up to MaxRecordsF64 records.
MaxRecordsF64 == MaxRecords + 2
ClientIdsF64 == {1}
TransactionIdsF64 == 1..2
AmountsF64 == {F64Tenth, F64SevenTenths}

TransactionLineF64 ==
    [transaction_type : MoneyKinds, client_id : ClientIdsF64,
     transaction_id : TransactionIdsF64, has_amount : {TRUE},
     amount : AmountsF64]
    \cup
    [transaction_type : ClaimKinds, client_id : ClientIdsF64,
     transaction_id : TransactionIdsF64, has_amount : {FALSE},
     amount : {F64Zero}]

\* lib.rs: one iteration of the loop of read_transactions_file, on f64
\* amounts.  The sums of the deposits and withdrawals are not kept here.
ReadLineF64(line) ==
    /\ pc = "reading"
    /\ nrecords < MaxRecordsF64
    /\ UNCHANGED <<pc, output, accDeposits, accWithdrawals>>
    /\ LET out == ProcessLine_f64(line, accounts, register)
       IN  /\ accounts' = out.clients
           /\ register' = out.register
           /\ lastResult' = out.res
           /\ acceptedTx' =
                IF IsMoneyLine(line) /\ out.res = "Ok"
                THEN acceptedTx \cup {line.transaction_id}
                ELSE acceptedTx
    /\ nrecords' = nrecords + 1
    /\ lastLine' = line
    /\ beforeAccounts' = accounts
    /\ beforeRegister' = register
    /\ seenTx' = IF try_from_f64(line).err = "Ok" /\ IsMoneyLine(line)
                 THEN seenTx \cup {line.transaction_id}
                 ELSE seenTx
    /\ claimSeen' = (claimSeen \/ ~IsMoneyLine(line))
    /\ mismatchSeen' =
         \/ mismatchSeen
         \/ /\ ~IsMoneyLine(line)
            /\ line.transaction_id \in DOMAIN register
            /\ register[line.transaction_id].client_id # line.client_id

LinesOfF64(kind) == {l \in TransactionLineF64 : l.transaction_type = kind}

DepositF64 == \E line \in LinesOfF64("deposit") : ReadLineF64(line)
WithdrawalF64 == \E line \in LinesOfF64("withdrawal") : ReadLineF64(line)
DisputeF64 == \E line \in LinesOfF64("dispute") : ReadLineF64(line)
ResolveF64 == \E line \in LinesOfF64("resolve") : ReadLineF64(line)
ChargebackF64 == \E line \in LinesOfF64("chargeback") : ReadLineF64(line)

NextF64 ==
    DepositF64 \/ WithdrawalF64 \/ DisputeF64 \/ ResolveF64 \/ ChargebackF64

SpecF64 == Init /\ [][NextF64]_vars

----------------------------------------------------------------------------
\* Vocabulary of the properties.

Accepted == lastResult = "Ok"
IsClaimLine(line) == line.transaction_type \in ClaimKinds
\* a money line that try_from turns into a MoneyOperation
IsMoneyOperation(line) ==
    IsMoneyLine(line) /\ line.has_amount /\ line.amount >= 0
\* the step consumes a record
Step == nrecords' = nrecords + 1
Unchanged == accounts' = accounts /\ register' = register

----------------------------------------------------------------------------
\* C1. Failure atomicity: a record that is rejected (any TransactionError,
\* or a money record dropped for a missing or negative amount) leaves the
\* set of accounts, every account's funds, held funds and lock, and every
\* register entry with its disputed flag exactly as they were.
C1_FailureAtomicity ==
    [][(Step /\ lastResult' # "Ok") => Unchanged]_vars

\* A Resolve that passed both matches and failed inside release_funds or
\* clear_held_funds.
C1_Witness ==
    /\ lastLine.transaction_type = "resolve"
    /\ lastResult = "NotEnoughFunds"
    /\ register[lastLine.transaction_id].disputed
    /\ accounts = beforeAccounts /\ register = beforeRegister

----------------------------------------------------------------------------
\* C2. Dispute round-trip: an accepted Dispute immediately followed by an
\* accepted Resolve on the same transaction (claimed by the operation's own
\* client) restores the account's available and held funds to their values
\* before the dispute, for a deposit and for a withdrawal alike.
C2_DisputeRoundTrip ==
    [][(/\ lastLine.transaction_type = "dispute" /\ Accepted
        /\ Step
        /\ lastLine'.transaction_type = "resolve" /\ lastResult' = "Ok"
        /\ lastLine'.transaction_id = lastLine.transaction_id
        /\ lastLine'.client_id = lastLine.client_id
        /\ register[lastLine.transaction_id].client_id = lastLine.client_id)
       => LET c == lastLine.client_id
          IN  /\ accounts'[c].funds = beforeAccounts[c].funds
              /\ accounts'[c].held_funds = beforeAccounts[c].held_funds]_vars

----------------------------------------------------------------------------
\* C3 as stated. After an accepted Chargeback the claim's client is locked,
\* and every later money operation and every later claim carrying that
\* client id fails with LockedAccount, whatever its transaction id.
C3_Original ==
    [][Step =>
        LET line == lastLine'
            c == line.client_id
        IN  /\ (line.transaction_type = "chargeback" /\ lastResult' = "Ok")
                  => accounts'[c].locked
            /\ (/\ c \in DOMAIN accounts /\ accounts[c].locked
                 /\ (IsMoneyOperation(line) \/ IsClaimLine(line)))
                  => lastResult' = "LockedAccount"]_vars

\* C3 amended. After an accepted Chargeback the claim's client is locked;
\* every later claim carrying that client id fails with LockedAccount, and
\* every later money operation carrying it fails with LockedAccount when
\* its transaction id is not in the register and with AlreadyExists when
\* it is.
C3_ChargebackTerminality ==
    [][Step =>
        LET line == lastLine'
            c == line.client_id
        IN  /\ (line.transaction_type = "chargeback" /\ lastResult' = "Ok")
                  => accounts'[c].locked
            /\ (c \in DOMAIN accounts /\ accounts[c].locked) =>
                 /\ IsClaimLine(line) => lastResult' = "LockedAccount"
                 /\ IsMoneyOperation(line) =>
                      lastResult' =
                        IF line.transaction_id \in DOMAIN register
                        THEN "AlreadyExists" ELSE "LockedAccount"]_vars

\* A money operation with a fresh transaction id was rejected because its
\* client's account is locked.
C3_Witness ==
    /\ IsMoneyOperation(lastLine)
    /\ lastResult = "LockedAccount"
    /\ lastLine.transaction_id \notin DOMAIN register
    /\ beforeAccounts[lastLine.client_id].locked

----------------------------------------------------------------------------
\* C4 as stated. Whenever a money operation is processed whose transaction
\* id was carried by an earlier processed money operation, it is rejected
\* with AlreadyExists and the accounts are not changed.
C4_Original ==
    [][(Step /\ IsMoneyOperation(lastLine')
             /\ lastLine'.transaction_id \in seenTx)
       => (lastResult' = "AlreadyExists" /\ accounts' = accounts)]_vars

\* C4 amended. Whenever a money operation is processed whose transaction id
\* was carried by an earlier ACCEPTED money operation, it is rejected with
\* AlreadyExists and accounts and register are not changed.
C4_DuplicateRejection ==
    [][(Step /\ IsMoneyOperation(lastLine')
             /\ lastLine'.transaction_id \in acceptedTx)
       => (lastResult' = "AlreadyExists" /\ Unchanged)]_vars

\* A money operation reusing the id of an accepted one, with another amount
\* and with records in between, was rejected.
C4_Witness ==
    /\ IsMoneyOperation(lastLine)
    /\ lastResult = "AlreadyExists"
    /\ lastLine.transaction_id \in acceptedTx
    /\ register[lastLine.transaction_id].amount # lastLine.amount
    /\ nrecords >= 3
    /\ accounts = beforeAccounts

----------------------------------------------------------------------------
\* C5. Balance conservation: as long as only deposits and withdrawals have
\* been consumed, each client's available funds equal the sum of its accepted
\* deposits minus the sum of its accepted withdrawals, its held funds are 0
\* and its available funds are not negative; a client without an account has
\* no accepted record.
C5_BalanceConservation ==
    ~claimSeen =>
        \A c \in ClientIds :
            IF c \in DOMAIN accounts
            THEN /\ accounts[c].funds = accDeposits[c] - accWithdrawals[c]
                 /\ accounts[c].held_funds = 0
                 /\ accounts[c].funds >= 0
            ELSE accDeposits[c] = 0 /\ accWithdrawals[c] = 0

\* A run of money records only, in which a client had deposits and a
\* withdrawal accepted and then a withdrawal rejected for lack of funds.
C5_Witness ==
    /\ ~claimSeen
    /\ lastLine.transaction_type = "withdrawal"
    /\ lastResult = "NotEnoughFunds"
    /\ accWithdrawals[lastLine.client_id] > 0
    /\ accDeposits[lastLine.client_id] > accWithdrawals[lastLine.client_id]

----------------------------------------------------------------------------
\* C6. An accepted Dispute on a deposit of amount a decreases the account's
\* available funds by exactly a and increases its held funds by exactly a.
C6_DisputeDeposit ==
    [][(/\ Step
        /\ lastLine'.transaction_type = "dispute" /\ lastResult' = "Ok"
        /\ register[lastLine'.transaction_id].kind = "Deposit")
       => LET c == lastLine'.client_id
              a == register[lastLine'.transaction_id].amount
          IN  /\ accounts'[c].funds = accounts[c].funds - a
              /\ accounts'[c].held_funds = accounts[c].held_funds + a]_vars

----------------------------------------------------------------------------
\* C7. An accepted Dispute on a withdrawal of amount a increases the
\* account's held funds by exactly a and leaves its available funds
\* unchanged.
C7_DisputeWithdrawal ==
    [][(/\ Step
        /\ lastLine'.transaction_type = "dispute" /\ lastResult' = "Ok"
        /\ register[lastLine'.transaction_id].kind = "Withdrawal")
       => LET c == lastLine'.client_id
              a == register[lastLine'.transaction_id].amount
          IN  /\ accounts'[c].held_funds = accounts[c].held_funds + a
              /\ accounts'[c].funds = accounts[c].funds]_vars

----------------------------------------------------------------------------
\* C8. In every reachable state every account's held funds are >= 0,
\* including after claims whose client id differs from the client of the
\* operation they reference.
C8_HeldNonNegative ==
    \A c \in DOMAIN accounts : accounts[c].held_funds >= 0

\* A Resolve or Chargeback carrying another client id than the operation's
\* asked for more than that client holds, and was refused.
C8_Witness ==
    /\ lastLine.transaction_type \in {"resolve", "chargeback"}
    /\ lastResult = "NotEnoughFunds"
    /\ register[lastLine.transaction_id].client_id # lastLine.client_id
    /\ accounts[lastLine.client_id].held_funds
          < register[lastLine.transaction_id].amount

----------------------------------------------------------------------------
\* Some account goes from available >= 0 to available < 0 in this step.
GoesNegative(c) ==
    /\ c \in DOMAIN accounts /\ accounts[c].funds >= 0
    /\ c \in DOMAIN accounts' /\ accounts'[c].funds < 0

\* C9 as stated. An account's available funds go from >= 0 to < 0 only by
\* an accepted Dispute on a withdrawal.
C9_Original ==
    [][\A c \in ClientIds : GoesNegative(c) =>
          /\ lastLine'.transaction_type = "dispute" /\ lastResult' = "Ok"
          /\ register[lastLine'.transaction_id].kind = "Withdrawal"]_vars

\* C9 amended. An account's available funds go from >= 0 to < 0 only by an
\* accepted Dispute (on a deposit or on a withdrawal) carrying that
\* account's client id.
C9_NegativeOnlyByDispute ==
    [][\A c \in ClientIds : GoesNegative(c) =>
          /\ lastLine'.transaction_type = "dispute" /\ lastResult' = "Ok"
          /\ lastLine'.client_id = c]_vars

\* An accepted Dispute on a deposit took an account from available >= 0 to
\* available < 0.
C9_Witness ==
    /\ lastLine.transaction_type = "dispute" /\ Accepted
    /\ register[lastLine.transaction_id].kind = "Deposit"
    /\ beforeAccounts[lastLine.client_id].funds >= 0
    /\ accounts[lastLine.client_id].funds < 0

----------------------------------------------------------------------------
\* C10. Claim state machine: for a claim on a recorded operation by a
\* client whose account exists and is unlocked, an accepted Dispute found
\* the disputed flag false and leaves it true, an accepted Resolve found it
\* true and leaves it false, an accepted Chargeback found it false; a
\* Dispute on a disputed operation, a Resolve or a Chargeback on the wrong
\* flag fails with WrongTransactionState and changes nothing.
C10_ClaimStateMachine ==
    [][(/\ Step
        /\ IsClaimLine(lastLine')
        /\ lastLine'.transaction_id \in DOMAIN register
        /\ lastLine'.client_id \in DOMAIN accounts
        /\ ~accounts[lastLine'.client_id].locked)
       => LET kind == lastLine'.transaction_type
              tx == lastLine'.transaction_id
              flag == register[tx].disputed
              valid == IF kind = "resolve" THEN flag ELSE ~flag
          IN  /\ (lastResult' = "Ok" /\ kind = "dispute")
                    => (~flag /\ register'[tx].disputed)
              /\ (lastResult' = "Ok" /\ kind = "resolve")
                    => (flag /\ ~register'[tx].disputed)
              /\ (lastResult' = "Ok" /\ kind = "chargeback") => ~flag
              /\ ~valid =>
                    (lastResult' = "WrongTransactionState" /\ Unchanged)]_vars

\* A Chargeback on a disputed operation was refused for its state.
C10_Witness ==
    /\ lastLine.transaction_type = "chargeback"
    /\ lastResult = "WrongTransactionState"
    /\ register[lastLine.transaction_id].disputed
    /\ ~accounts[lastLine.client_id].locked

----------------------------------------------------------------------------
\* C11. Account lock is permanent and freezes the account: an account
\* becomes locked only by an accepted Chargeback carrying its client id, a
\* locked account stays locked, and its available and held funds never
\* change again.
C11_LockPermanent ==
    [][\A c \in ClientIds :
         LET wasLocked == c \in DOMAIN accounts /\ accounts[c].locked
             isLocked == c \in DOMAIN accounts' /\ accounts'[c].locked
         IN  /\ wasLocked =>
                  (c \in DOMAIN accounts' /\ accounts'[c] = accounts[c])
             /\ (isLocked /\ ~wasLocked) =>
                  /\ lastLine'.transaction_type = "chargeback"
                  /\ lastResult' = "Ok"
                  /\ lastLine'.client_id = c]_vars

\* A claim by another client on an operation of a locked account was
\* accepted, and the locked account is as it was.
C11_Witness ==
    /\ IsClaimLine(lastLine) /\ Accepted
    /\ LET owner == register[lastLine.transaction_id].client_id
       IN  /\ owner # lastLine.client_id
           /\ owner \in DOMAIN beforeAccounts
           /\ beforeAccounts[owner].locked
           /\ accounts[owner] = beforeAccounts[owner]

----------------------------------------------------------------------------
\* C13 as stated. A claim whose transaction id is not in the register fails
\* with MissingOperation, whether or not the account named by the claim
\* exists or is locked.
C13_Original ==
    [][(/\ Step /\ IsClaimLine(lastLine')
        /\ lastLine'.transaction_id \notin DOMAIN register)
       => lastResult' = "MissingOperation"]_vars

\* C13 amended. A claim whose transaction id is not in the register changes
\* nothing and fails with MissingOperation, whether or not the account
\* named by the claim exists, unless that account is locked: then it fails
\* with LockedAccount.
C13_UnknownTransaction ==
    [][(/\ Step /\ IsClaimLine(lastLine')
        /\ lastLine'.transaction_id \notin DOMAIN register)
       => LET c == lastLine'.client_id
          IN  /\ lastResult' =
                    IF c \in DOMAIN accounts /\ accounts[c].locked
                    THEN "LockedAccount" ELSE "MissingOperation"
              /\ Unchanged]_vars

\* A claim on an unknown transaction by a client without an account failed
\* with MissingOperation while other accounts exist.
C13_Witness ==
    /\ IsClaimLine(lastLine)
    /\ lastResult = "MissingOperation"
    /\ lastLine.transaction_id \notin DOMAIN register
    /\ lastLine.client_id \notin DOMAIN accounts
    /\ accounts # EmptyMap

----------------------------------------------------------------------------
\* C14 as stated. A claim referencing a recorded operation whose owner (the
\* client of the operation) has a locked account fails with LockedAccount
\* and changes no account, whatever client id the claim carries.
C14_Original ==
    [][(/\ Step /\ IsClaimLine(lastLine')
        /\ lastLine'.transaction_id \in DOMAIN register
        /\ accounts[register[lastLine'.transaction_id].client_id].locked)
       => (lastResult' = "LockedAccount" /\ accounts' = accounts)]_vars

\* C14 amended. A claim whose own client id names a locked account fails
\* with LockedAccount and changes no account and no register entry,
\* whatever operation it references; in particular a claim on an operation
\* of a locked account that carries the owner's client id.
C14_LockedClaimant ==
    [][(/\ Step /\ IsClaimLine(lastLine')
        /\ lastLine'.client_id \in DOMAIN accounts
        /\ accounts[lastLine'.client_id].locked)
       => (lastResult' = "LockedAccount" /\ Unchanged)]_vars

\* A claim carrying the client id of the locked owner of a recorded
\* operation failed with LockedAccount.
C14_Witness ==
    /\ IsClaimLine(lastLine)
    /\ lastResult = "LockedAccount"
    /\ lastLine.transaction_id \in DOMAIN register
    /\ register[lastLine.transaction_id].client_id = lastLine.client_id
    /\ beforeAccounts[lastLine.client_id].locked

----------------------------------------------------------------------------
\* C15. A withdrawal with a transaction id not in the register is accepted
\* if and only if its client's account exists, is unlocked and has
\* available >= amount; accepted, it decreases that account's available by
\* exactly amount and changes nothing else in any account; without an
\* account it fails with MissingClient and creates none; on an existing
\* unlocked account with available < amount it fails with NotEnoughFunds.
C15_Withdrawal ==
    [][(/\ Step /\ IsMoneyOperation(lastLine')
        /\ lastLine'.transaction_type = "withdrawal"
        /\ lastLine'.transaction_id \notin DOMAIN register)
       => LET c == lastLine'.client_id
              amount == lastLine'.amount
              exists == c \in DOMAIN accounts
              unlocked == exists /\ ~accounts[c].locked
              enough == unlocked /\ accounts[c].funds >= amount
          IN  /\ (lastResult' = "Ok") <=> enough
              /\ enough =>
                    accounts' = [accounts EXCEPT ![c].funds = @ - amount]
              /\ ~exists =>
                    (lastResult' = "MissingClient" /\ accounts' = accounts)
              /\ (unlocked /\ ~enough) =>
                    (lastResult' = "NotEnoughFunds" /\ accounts' = accounts)
         ]_vars

\* A withdrawal of exactly the available funds was accepted.
C15_Witness ==
    /\ lastLine.transaction_type = "withdrawal" /\ Accepted
    /\ lastLine.amount > 0
    /\ beforeAccounts[lastLine.client_id].funds = lastLine.amount
    /\ accounts[lastLine.client_id].funds = 0

----------------------------------------------------------------------------
\* C16. Accounts are created only by an accepted deposit to a client that
\* has no account, with available = amount, held = 0 and locked = false; an
\* accepted deposit to an existing account only adds amount to its
\* available funds; no record removes an account.
C16_AccountCreation ==
    [][Step =>
        /\ DOMAIN accounts \subseteq DOMAIN accounts'
        /\ \A c \in DOMAIN accounts' \ DOMAIN accounts :
              /\ lastLine'.transaction_type = "deposit"
              /\ lastResult' = "Ok"
              /\ lastLine'.client_id = c
              /\ accounts'[c] = [funds |-> lastLine'.amount,
                                 held_funds |-> 0, locked |-> FALSE]
        /\ (/\ lastLine'.transaction_type = "deposit" /\ lastResult' = "Ok"
            /\ lastLine'.client_id \in DOMAIN accounts)
             => accounts' = [accounts EXCEPT
                               ![lastLine'.client_id].funds =
                                   @ + lastLine'.amount]]_vars

\* A second client's account was created by a deposit while the first
\* client's account holds funds.
C16_Witness ==
    /\ lastLine.transaction_type = "deposit" /\ Accepted
    /\ lastLine.amount > 0
    /\ lastLine.client_id \notin DOMAIN beforeAccounts
    /\ \E c \in DOMAIN beforeAccounts : beforeAccounts[c].held_funds > 0
    /\ accounts[lastLine.client_id].held_funds = 0

----------------------------------------------------------------------------
\* C17. Chargeback effect: a Chargeback on an undisputed recorded operation
\* of amount a, by a client whose account exists, is unlocked and holds at
\* least a, is accepted; on a deposit it decreases held by a and leaves
\* available unchanged, on a withdrawal it moves a from held to available;
\* the account becomes locked and the disputed flag stays false.  If the
\* account holds less than a the Chargeback fails with NotEnoughFunds and
\* nothing changes.
C17_ChargebackEffect ==
    [][(/\ Step /\ lastLine'.transaction_type = "chargeback"
        /\ lastLine'.transaction_id \in DOMAIN register
        /\ ~register[lastLine'.transaction_id].disputed
        /\ lastLine'.client_id \in DOMAIN accounts
        /\ ~accounts[lastLine'.client_id].locked)
       => LET c == lastLine'.client_id
              op == register[lastLine'.transaction_id]
              a == op.amount
              old == accounts[c]
          IN  IF old.held_funds >= a
              THEN /\ lastResult' = "Ok"
                   /\ accounts' = [accounts EXCEPT ![c] =
                         [funds |-> IF op.kind = "Deposit" THEN old.funds
                                    ELSE old.funds + a,
                          held_funds |-> old.held_funds - a,
                          locked |-> TRUE]]
                   /\ register' = register
              ELSE /\ lastResult' = "NotEnoughFunds"
                   /\ Unchanged]_vars

\* A Chargeback on a withdrawal of a positive amount was accepted.
C17_Witness ==
    /\ lastLine.transaction_type = "chargeback" /\ Accepted
    /\ register[lastLine.transaction_id].kind = "Withdrawal"
    /\ register[lastLine.transaction_id].amount > 0
    /\ accounts[lastLine.client_id].locked
    /\ accounts[lastLine.client_id].funds
          > beforeAccounts[lastLine.client_id].funds

----------------------------------------------------------------------------
\* C18. Register growth and immutability: an accepted money operation adds
\* exactly one entry, under its own fresh transaction id, with disputed =
\* false; a rejected money record or a claim adds none; no entry is ever
\* removed, and the client, kind and amount of an entry never change.
C18_RegisterGrowth ==
    [][Step =>
        /\ \A t \in DOMAIN register :
              /\ t \in DOMAIN register'
              /\ [register'[t] EXCEPT !.disputed = FALSE]
                   = [register[t] EXCEPT !.disputed = FALSE]
        /\ IF IsMoneyLine(lastLine') /\ lastResult' = "Ok"
           THEN LET t == lastLine'.transaction_id
                IN  /\ t \notin DOMAIN register
                    /\ DOMAIN register' = DOMAIN register \cup {t}
                    /\ register'[t] =
                          [client_id |-> lastLine'.client_id,
                           transaction_id |-> t,
                           disputed |-> FALSE,
                           kind |-> IF lastLine'.transaction_type = "deposit"
                                    THEN "Deposit" ELSE "Withdrawal",
                           amount |-> lastLine'.amount]
           ELSE DOMAIN register' = DOMAIN register]_vars

\* A withdrawal was recorded while an earlier entry is disputed.
C18_Witness ==
    /\ lastLine.transaction_type = "withdrawal" /\ Accepted
    /\ lastLine.transaction_id \notin DOMAIN beforeRegister
    /\ ~register[lastLine.transaction_id].disputed
    /\ \E t \in DOMAIN beforeRegister :
          register[t].disputed /\ register[t] = beforeRegister[t]

----------------------------------------------------------------------------
\* C20. Claim frame: a claim changes at most the account named by its own
\* client id and the disputed flag of the operation it references; it
\* creates and removes no account and no register entry, leaves every other
\* account (the owner of the operation included, when the claim carries
\* another client id) and every other entry as they were; a claim whose
\* client has no account fails and changes nothing.
C20_ClaimFrame ==
    [][(Step /\ IsClaimLine(lastLine'))
       => LET c == lastLine'.client_id
              tx == lastLine'.transaction_id
          IN  /\ DOMAIN accounts' = DOMAIN accounts
              /\ DOMAIN register' = DOMAIN register
              /\ \A d \in DOMAIN accounts \ {c} : accounts'[d] = accounts[d]
              /\ \A t \in DOMAIN register \ {tx} : register'[t] = register[t]
              /\ tx \in DOMAIN register =>
                    [register'[tx] EXCEPT !.disputed = FALSE]
                      = [register[tx] EXCEPT !.disputed = FALSE]
              /\ c \notin DOMAIN accounts =>
                    (lastResult' # "Ok" /\ Unchanged)]_vars

\* An accepted claim carrying another client id than the operation's
\* changed the claimant's account and left the owner's as it was.
C20_Witness ==
    /\ IsClaimLine(lastLine) /\ Accepted
    /\ LET owner == register[lastLine.transaction_id].client_id
           c == lastLine.client_id
       IN  /\ owner # c
           /\ accounts[c] # beforeAccounts[c]
           /\ accounts[owner] = beforeAccounts[owner]
           /\ register[lastLine.transaction_id].disputed

----------------------------------------------------------------------------
\* Sum, in f64, of the amounts of the operations of set txs in register reg.
RECURSIVE SumAmounts(_, _)
SumAmounts(reg, txs) ==
    IF txs = {} THEN F64Zero
    ELSE LET t == CHOOSE x \in txs : TRUE
         IN  F64Plus(reg[t].amount, SumAmounts(reg, txs \ {t}))

\* The operations of client c that are disputed in register reg.
DisputedOf(reg, c) ==
    {t \in DOMAIN reg : reg[t].client_id = c /\ reg[t].disputed}

HeldAccounting ==
    \A c \in DOMAIN accounts :
        ~accounts[c].locked =>
            accounts[c].held_funds
              = SumAmounts(register, DisputedOf(register, c))

\* C19. Held-funds accounting: as long as every claim carried the client
\* id of the operation it referenced, every unlocked account's held funds
\* equal the sum of the amounts of that client's operations that are
\* disputed, and a Resolve on a disputed operation of an unlocked account
\* does not fail with NotEnoughFunds: it is accepted.  On f64 amounts the
\* held funds are a chain of rounded sums and differences: after 0.1 and 0.7
\* are both held and 0.7 is released, the held funds are
\* 0.09999999999999998, below the 0.1 still disputed, and the Resolve of
\* that 0.1 fails.
C19_HeldAccounting ==
    [][Step =>
        /\ ~mismatchSeen' => HeldAccounting'
        /\ (/\ ~mismatchSeen'
            /\ lastLine'.transaction_type = "resolve"
            /\ lastLine'.transaction_id \in DOMAIN register
            /\ register[lastLine'.transaction_id].disputed
            /\ lastLine'.client_id \in DOMAIN accounts
            /\ ~accounts[lastLine'.client_id].locked)
             => lastResult' = "Ok"]_vars

----------------------------------------------------------------------------
\* r is the amount with four decimals nearest to x.
NearestFourDigits(r, x) ==
    /\ r % (Resolution \div Precision) = 0
    /\ 2 * (IF r >= x THEN r - x ELSE x - r) <= Resolution \div Precision

\* No amount that reaches the report lies halfway between two amounts with
\* four decimals.
NoTie ==
    \A c \in DOMAIN accounts :
        \A x \in {accounts[c].funds, accounts[c].held_funds,
                   accounts[c].funds + accounts[c].held_funds} :
            2 * (x % (Resolution \div Precision)) # Resolution \div Precision

\* C12. The report gives the internal values rounded to four decimals, and
\* nothing is rounded before: each row's available, held and total are the
\* four-decimal amounts nearest to the account's funds, held funds and
\* their sum; after deposits only, available is the amount nearest to the
\* exact sum of the accepted deposits, held is 0 and total is available; a
\* single deposit of 2.234235 is reported as 2.2342, 0.0, 2.2342.
C12_ReportRounding ==
    pc = "done" =>
        /\ DOMAIN output = DOMAIN accounts
        /\ \A c \in DOMAIN output :
              /\ NearestFourDigits(output[c].available, accounts[c].funds)
              /\ NearestFourDigits(output[c].held, accounts[c].held_funds)
              /\ NearestFourDigits(output[c].total,
                     accounts[c].funds + accounts[c].held_funds)
              /\ output[c].locked = accounts[c].locked
              /\ ~claimSeen =>
                    /\ NearestFourDigits(output[c].available, accDeposits[c])
                    /\ output[c].held = 0
                    /\ output[c].total = output[c].available
              /\ (~claimSeen /\ accDeposits[c] = 2234235) =>
                    /\ output[c].available = 2234200
                    /\ output[c].total = 2234200

\* Printed: a client whose two deposits 0.000051 + 0.000051 give 0.0001,
\* where the sum of their roundings is 0.0002, and a client with the single
\* deposit of 2.234235 of the precision test.
C12_Witness ==
    /\ pc = "done" /\ ~claimSeen
    /\ \E c, d \in DOMAIN output :
          /\ accDeposits[c] = 102
          /\ accounts[c].funds = 102
          /\ output[c].available = 100
          /\ output[c].total = 100
          /\ accounts[d].funds = 2234235
          /\ output[d] = [client |-> d, available |-> 2234200, held |-> 0,
                          total |-> 2234200, locked |-> FALSE]
====
